---- MODULE Spec2Model ----
(***************************************************************************)
(* Model of the HTTP/1.1 client engine of async-web-client:                *)
(*   RequestSend  (src/http/request_native.rs, fixed in-memory body)       *)
(*   RequestWrite (src/http/request_native.rs, streamed chunked body)      *)
(* One behaviour drives one instance (machine), built from one request.    *)
(* The collaborators (connect future, head codec, body encoder, flush,     *)
(* head decoder) answer Pending / Ok / Err nondeterministically.           *)
(***************************************************************************)
EXTENDS Integers, Sequences, FiniteSets, TLC

\* ---------------------------------------------------------------- bounds
MaxBody == 2      \* longest in-memory request body
HeadLen == 2      \* length of the encoded request head
MaxIters == 9     \* the loop-iteration counter of one poll call saturates here
MaxSent == 2      \* body bytes a streaming writer is given before it stops writing

\* ------------------------------------------------------- program constants
HttpsPort == 443
HttpPort == 80

\* ------------------------------------------------------------ option type
None == <<>>
Some(x) == <<x>>
unwrap(o) == o[1]

Bytes == {1, 2}
Ports == {8080}
Bodies == UNION {[1..n -> Bytes] : n \in 0..MaxBody}
Bufs == UNION {[1..n -> Bytes] : n \in 0..2}

\* the values of a Content-Length header the caller put on the request
ContentLengths == {None} \cup {Some(n) : n \in 0..1}

\* A request: URI scheme, URI host, URI port, Host header, Content-Length
\* header, body.  A URI without a host has neither a scheme nor a port.
Requests ==
  {r \in [scheme : {None, Some("http"), Some("https"), Some("ftp")},
          uriHost : BOOLEAN,
          port : {None} \cup {Some(p) : p \in Ports},
          hostHeader : BOOLEAN,
          contentLength : ContentLengths,
          body : Bodies] :
     ~r.uriHost => (r.scheme = None /\ r.port = None)}

VARIABLES
  machine,   \* "send": a RequestSend is driven; "write": a RequestWrite
  request,   \* the request the instance was built from
  self,      \* RequestSend: the enum value (tag and the fields of the variant)
  pc,        \* RequestSend: "idle" between poll calls, "loop" inside poll
  ret,       \* RequestSend: what the last poll call returned
  iters,     \* RequestSend: loop iterations of the current poll call
  tick,      \* RequestSend: parity of all loop iterations executed
  net,       \* what has happened on the connection (connect, bytes, flush, reads)
  w,         \* RequestWrite: the record
  wret,      \* RequestWrite: what the last poll_write/flush/close returned
  lastOp,    \* RequestWrite: the last sink operation called
  lastIO,    \* RequestWrite: the I/O the last sink call performed
  rpc,       \* RequestWrite::response: position of the async fn
  rret       \* RequestWrite::response: its result

vars == <<machine, request, self, pc, ret, iters, tick, net, w, wret, lastOp, lastIO, rpc, rret>>
sendVars == <<self, pc, ret, iters, tick>>
writeVars == <<w, wret, lastOp, lastIO, rpc, rret>>

\* ------------------------------------------------------------ connection
Net0 ==
  [created |-> FALSE,      \* a connect operation was created
   polled |-> FALSE,       \* the connect operation was polled
   kind |-> "none",        \* the kind of stream the connect produced
   port |-> None,          \* the port of the connect address
   headers |-> None,       \* the headers of the head given to the head encoder
   encoder |-> None,       \* the declared length the body encoder was made with
   head |-> 0,             \* head bytes accepted by the transport
   bodyOps |-> FALSE,      \* a body-encoder operation was delegated
   sent |-> <<>>,          \* body bytes accepted, in order
   flushPolled |-> FALSE,  \* a flush of the transport was polled
   flushed |-> FALSE,      \* a flush of the transport completed
   closed |-> FALSE,       \* the chunk adapter's close completed
   reads |-> FALSE,        \* the response-head decoder read from the transport
   handed |-> FALSE]       \* the transport was handed to the response-body reader

Take(s, n) == SubSeq(s, 1, n)
Drop(s, n) == SubSeq(s, n + 1, Len(s))

\* ------------------------------------------------------------ collaborators
\* extract_origin(uri, headers): (scheme?, host, port?), or MissingHost.
extract_origin(req) ==
  IF ~req.uriHost /\ ~req.hostHeader
  THEN [ok |-> FALSE, scheme |-> None, port |-> None]
  ELSE [ok |-> TRUE, scheme |-> req.scheme, port |-> req.port]

\* ResponseRead::new(transport, &head): fails on a head with malformed framing.
ResponseRead_new(wellFramed) ==
  IF wellFramed THEN "Response" ELSE "ResponseReadError"

\* Outcomes of one poll of a collaborator.
Outcomes == {"Ok", "Err", "Pending"}

\* One poll of the head write cursor at position c: the new position and the
\* outcome; Ok exactly when the whole head has been accepted.
HeadWrites(c) ==
  {[r |-> "Ok", k |-> HeadLen]}
    \cup {[r |-> o, k |-> k] : o \in {"Err", "Pending"}, k \in c..(HeadLen - 1)}

\* ------------------------------------------------------------ RequestSend
Finished == [tag |-> "Finished"]

\* RequestSend::new
RequestSend_new(req) == [tag |-> "Start", body |-> req.body]

\* faulty variant: every scheme but http is taken for https
SchemePolicyBad(scheme) ==
  IF scheme = Some("http") THEN Some(FALSE) ELSE Some(TRUE)

\* the scheme match of poll (Start): Some(https) or None for any other scheme
SchemePolicy(scheme) ==
  IF scheme = Some("http") THEN Some(FALSE)
  ELSE IF scheme = Some("https") THEN Some(TRUE)
  ELSE IF scheme = None THEN Some(TRUE)
  ELSE None

\* faulty variant: the two default ports are swapped
default_portBad(https) == IF https THEN HttpPort ELSE HttpsPort

\* port.unwrap_or(match https { true => 443, false => 80 })
default_port(https) == IF https THEN HttpsPort ELSE HttpPort

unwrap_or(o, d) == IF o = None THEN d ELSE unwrap(o)

\* the stream TcpStream::connect(addr) yields, whatever the scheme was
ConnectKind(https) == "Tcp"

\* faulty variant: the port connected to is always named
SynthHostBad(https, port) ==
  [from |-> "origin", port |-> Some(unwrap_or(port, default_port(https)))]

\* the Host header poll (PendingConnect) synthesizes from the origin
SynthHost(https, port) == [from |-> "origin", port |-> port]

\* the Host header the request itself carries
OwnHost == [from |-> "request", port |-> None]

\* faulty variant: Content-Length is always set from the body
SynthLengthBad(given, body) == Some(Len(body))

\* the Content-Length of the outgoing head: the request's, else the body's length
SynthLength(given, body) == IF given = None THEN Some(Len(body)) ELSE given

\* the head poll (PendingConnect) builds once the connect succeeded
RequestHead_new(req, https, origin, body) ==
  [host |-> Some(IF req.hostHeader THEN OwnHost ELSE SynthHost(https, origin.port)),
   contentLength |-> SynthLength(req.contentLength, body),
   chunked |-> FALSE]

\* faulty variant: poll matches on the exchange without taking it out
ReplacedBad == self

\* let s = replace(self, RequestSend::Finished): what self holds when poll
\* returns without storing a phase
Replaced == Finished

\* faulty variant: every failure is reported as an I/O error
ErrorOfBad(tag) == "IoError"

\* the HttpError a failed collaborator of a phase is wrapped in
ErrorOf(tag) == IF tag = "PendingConnect" THEN "ConnectError" ELSE "IoError"

Iterate ==
  /\ iters' = IF iters < MaxIters THEN iters + 1 ELSE iters
  /\ tick' = 1 - tick

Return(r) == pc' = "idle" /\ ret' = r
Continue == pc' = "loop" /\ UNCHANGED ret

InLoop(tag) == machine = "send" /\ pc = "loop" /\ self.tag = tag

\* a caller calls poll
Poll ==
  /\ machine = "send" /\ pc = "idle"
  /\ pc' = "loop" /\ iters' = 0
  /\ UNCHANGED <<machine, request, self, ret, tick, net, writeVars>>

StartStep ==
  /\ InLoop("Start")
  /\ Iterate
  /\ LET o == extract_origin(request) IN
       IF ~o.ok
       THEN self' = Replaced /\ Return("MissingHost") /\ UNCHANGED net
       ELSE LET https == SchemePolicy(o.scheme) IN
         IF https = None
         THEN self' = Replaced /\ Return("UnexpectedScheme") /\ UNCHANGED net
         ELSE /\ self' = [tag |-> "PendingConnect", body |-> self.body,
                          https |-> unwrap(https), connect |-> "future"]
              /\ net' = [net EXCEPT !.created = TRUE,
                           !.port = Some(unwrap_or(o.port, default_port(unwrap(https))))]
              /\ Continue
  /\ UNCHANGED <<machine, request, writeVars>>

PendingConnectStep(o) ==
  /\ InLoop("PendingConnect")
  /\ Iterate
  /\ CASE o = "Ok" ->
            IF ~extract_origin(request).ok
            THEN /\ self' = Replaced /\ Return("MissingHost")
                 /\ net' = [net EXCEPT !.polled = TRUE, !.kind = ConnectKind(self.https)]
            ELSE /\ self' = [tag |-> "SendingHead", body |-> self.body,
                             write_state |-> 0, transport |-> ConnectKind(self.https)]
                 /\ net' = [net EXCEPT !.polled = TRUE, !.kind = ConnectKind(self.https),
                              !.headers = Some(RequestHead_new(request, self.https,
                                                 extract_origin(request), self.body))]
                 /\ Continue
       [] o = "Err" ->
            /\ self' = Replaced /\ Return(ErrorOf(self.tag))
            /\ net' = [net EXCEPT !.polled = TRUE]
       [] o = "Pending" ->
            /\ self' = self /\ Return("Pending")
            /\ net' = [net EXCEPT !.polled = TRUE]
  /\ UNCHANGED <<machine, request, writeVars>>

SendingHeadStep(o) ==
  /\ InLoop("SendingHead")
  /\ o \in HeadWrites(self.write_state)
  /\ Iterate
  /\ net' = [net EXCEPT !.head = o.k,
                        !.encoder = IF o.r = "Ok" THEN Some(Some(Len(self.body))) ELSE @]
  /\ CASE o.r = "Ok" ->
            /\ self' = [tag |-> "SendingBody", body |-> self.body,
                        remaining |-> self.body,
                        write_state |-> Some(Len(self.body)),
                        transport |-> self.transport]
            /\ Continue
       [] o.r = "Err" -> self' = Replaced /\ Return(ErrorOf(self.tag))
       [] o.r = "Pending" ->
            /\ self' = [self EXCEPT !.write_state = o.k]
            /\ Return("Pending")
  /\ UNCHANGED <<machine, request, writeVars>>

\* faulty variant: the slice is cut one byte too far
AdvanceBad(remaining, n) == Drop(remaining, n + 1)

\* remaining = &remaining[n..]
Advance(remaining, n) == Drop(remaining, n)

\* faulty variant: the flush is skipped
AfterBodyBad(transport) == [tag |-> "ReceivingHead", transport |-> transport]

\* 0 => *self = RequestSend::Flushing { transport }
AfterBody(transport) == [tag |-> "Flushing", transport |-> transport]

SendingBodyStep(o, n) ==
  /\ InLoop("SendingBody")
  /\ n \in 0..Len(self.remaining)
  /\ Iterate
  /\ CASE o = "Ok" ->
            /\ net' = [net EXCEPT !.bodyOps = TRUE,
                                  !.sent = @ \o Take(self.remaining, n)]
            /\ LET remaining == Advance(self.remaining, n) IN
                 IF Len(remaining) = 0
                 THEN self' = AfterBody(self.transport)
                 ELSE self' = [self EXCEPT !.remaining = remaining]
            /\ Continue
       [] o = "Err" ->
            /\ n = 0
            /\ net' = [net EXCEPT !.bodyOps = TRUE]
            /\ self' = Replaced /\ Return(ErrorOf(self.tag))
       [] o = "Pending" ->
            /\ n = 0
            /\ net' = [net EXCEPT !.bodyOps = TRUE]
            /\ self' = self /\ Return("Pending")
  /\ UNCHANGED <<machine, request, writeVars>>

FlushingStep(o) ==
  /\ InLoop("Flushing")
  /\ Iterate
  /\ CASE o = "Ok" ->
            /\ net' = [net EXCEPT !.flushPolled = TRUE, !.flushed = TRUE]
            /\ self' = [tag |-> "ReceivingHead", transport |-> self.transport]
            /\ Continue
       [] o = "Err" ->
            /\ net' = [net EXCEPT !.flushPolled = TRUE]
            /\ self' = Replaced /\ Return(ErrorOf(self.tag))
       [] o = "Pending" ->
            /\ net' = [net EXCEPT !.flushPolled = TRUE]
            /\ self' = self /\ Return("Pending")
  /\ UNCHANGED <<machine, request, writeVars>>

\* faulty variant: the suspended exchange is stored as Flushing
SuspendedReceivingBad(transport) == [tag |-> "Flushing", transport |-> transport]

\* Poll::Pending => *self = RequestSend::ReceivingHead { transport, dec_state }
SuspendedReceiving(transport) == [tag |-> "ReceivingHead", transport |-> transport]

ReceivingHeadStep(o, wellFramed) ==
  /\ InLoop("ReceivingHead")
  /\ Iterate
  /\ CASE o = "Ok" ->
            /\ net' = [net EXCEPT !.reads = TRUE, !.handed = TRUE]
            /\ self' = Replaced /\ Return(ResponseRead_new(wellFramed))
       [] o = "Err" ->
            /\ wellFramed
            /\ net' = [net EXCEPT !.reads = TRUE]
            /\ self' = Replaced /\ Return(ErrorOf(self.tag))
       [] o = "Pending" ->
            /\ wellFramed
            /\ net' = [net EXCEPT !.reads = TRUE]
            /\ self' = SuspendedReceiving(self.transport) /\ Return("Pending")
  /\ UNCHANGED <<machine, request, writeVars>>

\* faulty variant: a finished exchange answers Pending
FinishedStepBad ==
  /\ InLoop("Finished")
  /\ Iterate
  /\ self' = Finished /\ Return("Pending")
  /\ UNCHANGED <<machine, request, net, writeVars>>

\* RequestSend::Finished => panic!("polled finished future")
FinishedStep ==
  /\ InLoop("Finished")
  /\ Iterate
  /\ self' = Finished /\ Return("Panic")
  /\ UNCHANGED <<machine, request, net, writeVars>>

\* RequestSend::is_terminated
is_terminated == self.tag = "Finished"

\* ------------------------------------------------------------ RequestWrite
\* RequestWrite::error
error(err) ==
  [error |-> Some(err), pending_connect |-> None, pending_head |-> None,
   transport |-> None, body_encode_state |-> None]

\* faulty variant: the head is the request's head as it came
ChunkedHeadBad(req) ==
  [host |-> IF req.hostHeader THEN Some(OwnHost) ELSE None,
   contentLength |-> req.contentLength,
   chunked |-> FALSE]

\* RequestHead::ref_request(request) with Transfer-Encoding: chunked inserted
ChunkedHead(req) ==
  [host |-> IF req.hostHeader THEN Some(OwnHost) ELSE None,
   contentLength |-> req.contentLength,
   chunked |-> TRUE]

\* RequestWrite::start: the record and the connection it leaves behind
start(req) ==
  LET https == IF req.scheme # None
               THEN (IF req.scheme = Some("http") THEN Some(FALSE)
                     ELSE IF req.scheme = Some("https") THEN Some(TRUE)
                     ELSE None)
               ELSE Some(TRUE)
  IN IF https = None THEN [self |-> error("UnexpectedScheme"), net |-> Net0]
     ELSE IF ~req.uriHost THEN [self |-> error("MissingHost"), net |-> Net0]
     ELSE LET port == IF req.port # None THEN unwrap(req.port)
                      ELSE IF unwrap(https) THEN HttpsPort ELSE HttpPort
          IN [self |-> [error |-> None,
                        pending_connect |-> Some(port),
                        pending_head |-> Some(0),
                        transport |-> None,
                        body_encode_state |-> Some(None)],
              net |-> [Net0 EXCEPT !.created = TRUE, !.port = Some(port),
                                   !.headers = Some(ChunkedHead(req)),
                                   !.encoder = Some(None)]]

\* The result of a call: the record and the connection after it, the I/O it
\* performed and what it returned.
Result(s, n, io, r) == [self |-> s, net |-> n, io |-> io, r |-> r]

\* faulty variant: the finished connect stays pending
ConnectedBad(s, t) == [s EXCEPT !.transport = Some(t)]

\* Ok(transport): self.transport = Some(transport); self.pending_connect = None
Connected(s, t) == [s EXCEPT !.transport = Some(t), !.pending_connect = None]

\* faulty variant: a suspended head write starts over
KeepHeadBad(k) == Some(0)

\* ready!(state.poll(cx, transport)) on Pending: the cursor stays in pending_head
KeepHead(k) == Some(k)

\* RequestWrite::poll_before_body with connect outcome c and head-write outcome h
poll_before_body(s, n, c, h) ==
  LET ac ==
        IF s.pending_connect # None
        THEN CASE c = "Pending" ->
                    Result(s, [n EXCEPT !.polled = TRUE], {"connect"}, "Pending")
               [] c = "Ok" ->
                    Result(Connected(s, "Tcp"),
                           [n EXCEPT !.polled = TRUE, !.kind = "Tcp"], {"connect"}, "Ok")
               [] c = "Err" ->
                    Result(error("ConnectError"), [n EXCEPT !.polled = TRUE],
                           {"connect"}, "ConnectError")
        ELSE Result(s, n, {}, "Ok")
  IN IF ac.r # "Ok" THEN ac
     ELSE IF ac.self.transport = None THEN Result(ac.self, ac.net, ac.io, "Panic")
     ELSE IF ac.self.pending_head # None
     THEN CASE h.r = "Pending" ->
                 Result([ac.self EXCEPT !.pending_head = KeepHead(h.k)],
                        [ac.net EXCEPT !.head = h.k], ac.io \cup {"head"}, "Pending")
            [] h.r = "Ok" ->
                 Result([ac.self EXCEPT !.pending_head = None],
                        [ac.net EXCEPT !.head = h.k], ac.io \cup {"head"}, "Ok")
            [] h.r = "Err" ->
                 Result(error("IoError"), [ac.net EXCEPT !.head = h.k],
                        ac.io \cup {"head"}, "IoError")
     ELSE ac

\* faulty variant: the transport is not stored again
checkpointBad(s, t, st) == [s EXCEPT !.body_encode_state = Some(st)]

\* faulty variant: the transport is stored again whatever happened
checkpointAlways(s, t, st) ==
  [s EXCEPT !.body_encode_state = Some(st), !.transport = Some(t)]

\* let (t, s) = w.checkpoint(); self.body_encode_state = Some(s);
\* if self.error.is_none() { self.transport = Some(t) }
checkpoint(s, t, st) ==
  [s EXCEPT !.body_encode_state = Some(st),
            !.transport = IF s.error = None THEN Some(t) ELSE @]

\* self.transport.take() and self.body_encode_state.take()
take_both(s) == [s EXCEPT !.transport = None, !.body_encode_state = None]

\* poll_write after the cached-error check
write_body(s, n, c, h, o, buf, k) ==
  LET b == poll_before_body(s, n, c, h) IN
    IF b.r # "Ok" THEN b
    ELSE IF b.self.transport = None THEN Result(b.self, b.net, b.io, "AlreadyClosed")
    ELSE IF b.self.body_encode_state = None THEN Result(b.self, b.net, b.io, "Panic")
    ELSE LET t == unwrap(b.self.transport)
             st == unwrap(b.self.body_encode_state)
             taken == take_both(b.self)
             nn == [b.net EXCEPT !.bodyOps = TRUE]
         IN CASE o = "Err" ->
                   Result(checkpoint(error("IoError"), t, st), nn,
                          b.io \cup {"body"}, "IoError")
              [] o = "Ok" ->
                   Result(checkpoint(taken, t, st),
                          [nn EXCEPT !.sent = @ \o Take(buf, k)],
                          b.io \cup {"body"}, "Ok")
              [] o = "Pending" ->
                   Result(checkpoint(taken, t, st), nn, b.io \cup {"body"}, "Pending")

\* <RequestWrite as AsyncWrite>::poll_write; the adapter accepts k bytes of buf
poll_write(s, n, c, h, o, buf, k) ==
  IF s.error # None THEN Result(s, n, {}, unwrap(s.error))
  ELSE write_body(s, n, c, h, o, buf, k)

\* poll_flush after the cached-error check
flush_body(s, n, c, h, o) ==
  LET b == poll_before_body(s, n, c, h) IN
    IF b.r # "Ok" THEN b
    ELSE IF b.self.transport = None THEN Result(b.self, b.net, b.io, "AlreadyClosed")
    ELSE IF b.self.body_encode_state = None THEN Result(b.self, b.net, b.io, "Panic")
    ELSE LET t == unwrap(b.self.transport)
             st == unwrap(b.self.body_encode_state)
             taken == take_both(b.self)
             nn == [b.net EXCEPT !.bodyOps = TRUE, !.flushPolled = TRUE]
         IN CASE o = "Err" ->
                   Result(checkpoint(error("IoError"), t, st), nn,
                          b.io \cup {"body"}, "IoError")
              [] o = "Ok" ->
                   Result(checkpoint(taken, t, st), [nn EXCEPT !.flushed = TRUE],
                          b.io \cup {"body"}, "Ok")
              [] o = "Pending" ->
                   Result(checkpoint(taken, t, st), nn, b.io \cup {"body"}, "Pending")

\* faulty variant: the recorded error is not looked at
poll_flushBad(s, n, c, h, o) == flush_body(s, n, c, h, o)

\* <RequestWrite as AsyncWrite>::poll_flush
poll_flush(s, n, c, h, o) ==
  IF s.error # None THEN Result(s, n, {}, unwrap(s.error))
  ELSE flush_body(s, n, c, h, o)

\* poll_close after the cached-error check
close_body(s, n, c, h, o) ==
  LET b == poll_before_body(s, n, c, h) IN
    IF b.r # "Ok" THEN b
    ELSE IF b.self.transport = None THEN Result(b.self, b.net, b.io, "AlreadyClosed")
    ELSE IF b.self.body_encode_state = None THEN Result(b.self, b.net, b.io, "Panic")
    ELSE LET t == unwrap(b.self.transport)
             st == unwrap(b.self.body_encode_state)
             taken == take_both(b.self)
             nn == [b.net EXCEPT !.bodyOps = TRUE]
         IN CASE o = "Err" ->
                   Result(checkpoint(error("IoError"), t, st), nn,
                          b.io \cup {"body"}, "IoError")
              [] o = "Ok" ->
                   Result(checkpoint([taken EXCEPT !.transport = None], t, st),
                          [nn EXCEPT !.closed = TRUE], b.io \cup {"body"}, "Ok")
              [] o = "Pending" ->
                   Result(checkpoint(taken, t, st), nn, b.io \cup {"body"}, "Pending")

\* <RequestWrite as AsyncWrite>::poll_close.  On Ok, drop(self.transport.take())
\* acts on the slot that take_both has already emptied; checkpoint then runs.
poll_close(s, n, c, h, o) ==
  IF s.error # None THEN Result(s, n, {}, unwrap(s.error))
  ELSE close_body(s, n, c, h, o)

\* the head-write cursor of the record (the head is complete once it is cleared)
HeadCursor(s) == IF s.pending_head # None THEN unwrap(s.pending_head) ELSE HeadLen

Min(a, b) == IF a < b THEN a ELSE b

Apply(res, op) ==
  /\ w' = res.self
  /\ net' = res.net
  /\ lastIO' = res.io
  /\ wret' = res.r
  /\ lastOp' = op

\* a caller calls poll_write with some buffer
PollWrite ==
  /\ machine = "write" /\ rpc = "none"
  /\ \E c \in Outcomes, h \in HeadWrites(HeadCursor(w)), o \in Outcomes, buf \in Bufs :
       \E k \in 0..Min(Len(buf), MaxSent - Len(net.sent)) :
         Apply(poll_write(w, net, c, h, o, buf, k), "write")
  /\ UNCHANGED <<machine, request, sendVars, rpc, rret>>

\* a caller calls poll_flush
PollFlush ==
  /\ machine = "write" /\ rpc = "none"
  /\ \E c \in Outcomes, h \in HeadWrites(HeadCursor(w)), o \in Outcomes :
       Apply(poll_flush(w, net, c, h, o), "flush")
  /\ UNCHANGED <<machine, request, sendVars, rpc, rret>>

\* a caller calls poll_close
PollClose ==
  /\ machine = "write" /\ rpc = "none"
  /\ \E c \in Outcomes, h \in HeadWrites(HeadCursor(w)), o \in Outcomes :
       Apply(poll_close(w, net, c, h, o), "close")
  /\ UNCHANGED <<machine, request, sendVars, rpc, rret>>

\* RequestWrite::response is called: the writer moves into the async fn
Response ==
  /\ machine = "write" /\ rpc = "none"
  /\ rpc' = "closing"
  /\ UNCHANGED <<machine, request, sendVars, net, w, wret, lastOp, lastIO, rret>>

\* faulty variant: a failed close is taken for a completed one
after_closeBad(res) ==
  CASE res.r = "Pending" -> [self |-> res.self, rpc |-> "closing", rret |-> "None"]
    [] OTHER -> [self |-> [res.self EXCEPT !.transport = None],
                 rpc |-> "decoding", rret |-> "None"]

\* what response does with the result of one poll of poll_close
after_close(res) ==
  CASE res.r = "Pending" -> [self |-> res.self, rpc |-> "closing", rret |-> "None"]
    [] res.r = "Ok" ->
         IF res.self.transport = None
         THEN [self |-> res.self, rpc |-> "done", rret |-> "Panic"]
         ELSE [self |-> [res.self EXCEPT !.transport = None],
               rpc |-> "decoding", rret |-> "None"]
    [] OTHER ->
         IF res.self.error = None
         THEN [self |-> res.self, rpc |-> "done", rret |-> "Panic"]
         ELSE [self |-> res.self, rpc |-> "done", rret |-> unwrap(res.self.error)]

\* response: poll_fn(|cx| poll_close(cx)).await, one poll
ResponseClose ==
  /\ machine = "write" /\ rpc = "closing"
  /\ \E c \in Outcomes, h \in HeadWrites(HeadCursor(w)), o \in Outcomes :
       LET res == poll_close(w, net, c, h, o)
           a == after_close(res)
       IN /\ w' = a.self
          /\ net' = res.net
          /\ lastIO' = res.io
          /\ wret' = res.r
          /\ lastOp' = "close"
          /\ rpc' = a.rpc
          /\ rret' = a.rret
  /\ UNCHANGED <<machine, request, sendVars>>

\* response: ResponseHead::decode(t).await, one poll, then ResponseRead::new
ResponseDecode(o, wellFramed) ==
  /\ machine = "write" /\ rpc = "decoding"
  /\ CASE o = "Ok" ->
            /\ net' = [net EXCEPT !.reads = TRUE, !.handed = TRUE]
            /\ rpc' = "done" /\ rret' = ResponseRead_new(wellFramed)
       [] o = "Err" ->
            /\ wellFramed
            /\ net' = [net EXCEPT !.reads = TRUE]
            /\ rpc' = "done" /\ rret' = "IoError"
       [] o = "Pending" ->
            /\ wellFramed
            /\ net' = [net EXCEPT !.reads = TRUE]
            /\ UNCHANGED <<rpc, rret>>
  /\ UNCHANGED <<machine, request, sendVars, w, wret, lastOp, lastIO>>

\* ------------------------------------------------------------ specification
NoWriter ==
  [error |-> None, pending_connect |-> None, pending_head |-> None,
   transport |-> None, body_encode_state |-> None]

Init ==
  /\ machine \in {"send", "write"}
  /\ request \in Requests
  /\ machine = "write" => request.body = <<>>
  /\ self = RequestSend_new(request)
  /\ pc = "idle" /\ ret = "None" /\ iters = 0 /\ tick = 0
  /\ net = IF machine = "write" THEN start(request).net ELSE Net0
  /\ w = IF machine = "write" THEN start(request).self ELSE NoWriter
  /\ wret = "None" /\ lastOp = "none" /\ lastIO = {}
  /\ rpc = "none" /\ rret = "None"

Next ==
  \/ Poll
  \/ StartStep
  \/ \E o \in Outcomes : PendingConnectStep(o)
  \/ \E o \in HeadWrites(0) : SendingHeadStep(o)
  \/ \E o \in Outcomes, n \in 0..MaxBody : SendingBodyStep(o, n)
  \/ \E o \in Outcomes : FlushingStep(o)
  \/ \E o \in Outcomes, wf \in BOOLEAN : ReceivingHeadStep(o, wf)
  \/ FinishedStep
  \/ PollWrite
  \/ PollFlush
  \/ PollClose
  \/ Response
  \/ ResponseClose
  \/ \E o \in Outcomes, wf \in BOOLEAN : ResponseDecode(o, wf)

Spec == Init /\ [][Next]_vars

\* one iteration of the loop of RequestSend::poll
LoopStep ==
  \/ StartStep
  \/ \E o \in Outcomes : PendingConnectStep(o)
  \/ \E o \in HeadWrites(0) : SendingHeadStep(o)
  \/ \E o \in Outcomes, n \in 0..MaxBody : SendingBodyStep(o, n)
  \/ \E o \in Outcomes : FlushingStep(o)
  \/ \E o \in Outcomes, wf \in BOOLEAN : ReceivingHeadStep(o, wf)
  \/ FinishedStep

\* a poll call returns Pending
ReturnsPending == pc = "loop" /\ pc' = "idle" /\ ret' = "Pending"

\* The scheduling of a RequestSend: the caller polls a first time and again
\* after every Pending, a poll call that was entered keeps running, and
\* from some point on no collaborator answers Pending.
FairSpec ==
  /\ Spec
  /\ WF_vars(Poll /\ ret \in {"None", "Pending"})
  /\ WF_vars(LoopStep)
  /\ <>[][~ReturnsPending]_vars

\* ------------------------------------------------------------ properties
Rank(tag) ==
  CASE tag = "Start" -> 0
    [] tag = "PendingConnect" -> 1
    [] tag = "SendingHead" -> 2
    [] tag = "SendingBody" -> 3
    [] tag = "Flushing" -> 4
    [] tag = "ReceivingHead" -> 5
    [] tag = "Finished" -> 6

HttpErrors == {"UnexpectedScheme", "MissingHost", "ConnectError", "IoError",
               "ResponseReadError"}
ReadyResults == {"Response"} \cup HttpErrors

\* C1: no step of poll moves a RequestSend to an earlier phase; a loop
\* iteration that keeps the phase and goes on looping is an iteration of
\* SendingBody that leaves a non-empty remaining slice; Finished is never left.
C1_PhaseForward ==
  [][/\ Rank(self'.tag) >= Rank(self.tag)
     /\ (pc = "loop" /\ pc' = "loop" /\ self'.tag = self.tag)
          => (self.tag = "SendingBody" /\ self'.remaining # <<>>)
     /\ self.tag = "Finished" => self'.tag = "Finished"]_vars

\* a RequestSend that went through every phase up to ReceivingHead with a
\* body of the greatest length and suspended there
C1_Witness ==
  /\ machine = "send" /\ pc = "idle" /\ ret = "Pending"
  /\ self.tag = "ReceivingHead"
  /\ Len(request.body) = MaxBody /\ net.sent = request.body

\* C2: a RequestSend that is polled again after every Pending, with
\* collaborators that keep answering something other than Pending,
\* eventually returns Ready (a response or an HttpError) from poll.
C2_EventuallyReady ==
  (machine = "send") => <>(pc = "idle" /\ ret \in ReadyResults)

\* C3: the response-head decoder reads only after the whole head went out,
\* then the whole body, then a completed flush; body writes start only after
\* the whole head, the flush only after the whole body; a response is
\* returned only after the decoder read.
C3_SendBeforeReceive ==
  machine = "send" =>
    /\ net.bodyOps => net.head = HeadLen
    /\ net.flushPolled => (net.bodyOps /\ net.sent = request.body)
    /\ net.flushed => net.flushPolled
    /\ net.reads => net.flushed
    /\ self.tag = "ReceivingHead" => net.flushed
    /\ ret \in {"Response", "ResponseReadError"} => (net.reads /\ net.handed)
    /\ net.handed => net.reads

C3_Witness ==
  /\ machine = "send" /\ ret = "Response" /\ net.reads
  /\ request.body # <<>>

\* C4: in SendingBody the bytes accepted so far followed by the remaining
\* slice are the original body, and the phases after SendingBody are entered
\* with exactly the original body accepted.
C4_BodyInOrder ==
  machine = "send" =>
    /\ self.tag = "SendingBody" =>
         (net.sent \o self.remaining = request.body /\ self.body = request.body)
    /\ self.tag \in {"Flushing", "ReceivingHead"} => net.sent = request.body
    /\ self.tag \in {"Start", "PendingConnect", "SendingHead"} => net.sent = <<>>
    /\ \E n \in 0..Len(request.body) : net.sent = Take(request.body, n)

\* SendingBody suspended with a part of the body accepted and a part left
C4_Witness ==
  /\ machine = "send" /\ self.tag = "SendingBody"
  /\ pc = "idle" /\ ret = "Pending"
  /\ net.sent # <<>> /\ self.remaining # <<>>

\* C5: once a RequestWrite records an error no step clears or replaces it,
\* and every poll_write, poll_flush and poll_close (also the one response
\* makes) returns that error, polls no connect and touches no transport.
C5_StickyError ==
  [][(machine = "write" /\ w.error # None) =>
       /\ w'.error = w.error
       /\ (PollWrite \/ PollFlush \/ PollClose \/ ResponseClose) =>
            (wret' = unwrap(w.error) /\ lastIO' = {} /\ net' = net)]_vars

\* a call made after an I/O error was recorded has returned it
C5_Witness ==
  /\ machine = "write" /\ w.error = Some("IoError")
  /\ wret = "IoError" /\ lastIO = {} /\ net.bodyOps

\* C6 as claimed: after poll returned ConnectError every later poll returns
\* ConnectError.
C6_RepeatsConnectError ==
  [][(machine = "send" /\ ret = "ConnectError") => ret' = "ConnectError"]_vars

\* C6 as amended: poll returns ConnectError only with the exchange Finished
\* and no head or body byte written, and the next poll panics.
C6_ConnectErrorThenPanic ==
  [][/\ (machine = "send" /\ ret' = "ConnectError") =>
          /\ self'.tag = "Finished"
          /\ net'.polled /\ net'.kind = "none"
          /\ net'.head = 0 /\ net'.sent = <<>> /\ ~net'.bodyOps
     /\ (machine = "send" /\ ret \in {"ConnectError", "Panic"} /\ ret' # ret) =>
          (ret = "ConnectError" /\ ret' = "Panic")]_vars

\* the poll after the one that returned ConnectError has panicked
C6_Witness ==
  /\ machine = "send" /\ ret = "Panic" /\ pc = "idle"
  /\ net.polled /\ net.kind = "none"

\* C7: response decodes a head only after its poll_close returned Ok; when
\* poll_close fails it returns the recorded error and nothing is decoded;
\* the transport is handed to the response-body reader only after a decode.
C7_CloseThenDecode ==
  machine = "write" =>
    /\ rpc = "decoding" => (lastOp = "close" /\ wret = "Ok" /\ net.closed
                            /\ w.error = None /\ w.transport = None)
    /\ net.reads => (net.closed /\ lastOp = "close" /\ wret = "Ok")
    /\ net.handed => (net.reads /\ rpc = "done")
    /\ (rpc = "done" /\ ~net.reads) =>
         (w.error # None /\ rret = unwrap(w.error) /\ wret = rret)
    /\ rret # "Panic"

\* response returned the error its close recorded, without decoding
C7_Witness ==
  /\ machine = "write" /\ rpc = "done" /\ rret = "IoError"
  /\ ~net.reads /\ net.head = HeadLen /\ lastIO = {"body"}

\* C8 as claimed: after a successful poll_write or poll_flush the transport
\* and the cursor are in the record, after a successful poll_close the
\* transport is not.
C8_CloseDropsTransport ==
  (machine = "write" /\ rpc = "none" /\ wret = "Ok") =>
    IF lastOp = "close"
    THEN w.transport = None
    ELSE w.transport # None /\ w.body_encode_state # None

\* C8 as amended: after a successful poll_write, poll_flush or poll_close
\* the transport and the cursor are both in the record.
C8_TransportRestored ==
  (machine = "write" /\ rpc \in {"none", "closing"} /\ wret = "Ok") =>
    (w.transport # None /\ w.body_encode_state # None /\ w.error = None)

C8_Witness ==
  /\ machine = "write" /\ rpc = "none" /\ wret = "Ok" /\ lastOp = "close"
  /\ net.closed /\ w.transport # None

\* C9: a RequestSend with scheme https or without a scheme connects an
\* encrypted stream, one with scheme http a plain stream.
C9_EncryptedForHttps ==
  (machine = "send" /\ net.kind # "none") =>
    net.kind = IF request.scheme = Some("http") THEN "Tcp" ELSE "Tls"

\* C10: for a scheme other than http and https no connect is created or
\* polled; the first poll of a RequestSend returns UnexpectedScheme (later
\* ones find it Finished) and RequestWrite::start records UnexpectedScheme.
C10_UnexpectedScheme ==
  (request.scheme = Some("ftp") /\ request.uriHost) =>
    /\ ~net.created /\ ~net.polled /\ net.kind = "none" /\ net.port = None
    /\ machine = "send" =>
         /\ self.tag \in {"Start", "Finished"}
         /\ ret \in {"None", "UnexpectedScheme", "Panic"}
         /\ (pc = "idle" /\ ret = "None") => self.tag = "Start"
         /\ self.tag = "Finished" => ret # "None"
    /\ machine = "write" =>
         /\ w = error("UnexpectedScheme")
         /\ wret \in {"None", "UnexpectedScheme"}

C10_Witness ==
  /\ machine = "send" /\ request.scheme = Some("ftp")
  /\ pc = "idle" /\ ret = "UnexpectedScheme"

\* the port the claim expects for a request
ExpectedPort(req) ==
  IF req.port # None THEN unwrap(req.port)
  ELSE IF req.scheme = Some("http") THEN HttpPort ELSE HttpsPort

\* C11: the connect address carries the URI's explicit port when there is
\* one, else 80 for http and 443 for https or no scheme, for a RequestSend
\* and for a RequestWrite.
C11_ConnectPort ==
  net.created =>
    /\ request.scheme \in {None, Some("http"), Some("https")}
    /\ net.port = Some(ExpectedPort(request))

\* a RequestSend for an http URI without a port has polled its connect
C11_Witness ==
  /\ machine = "send" /\ net.polled
  /\ request.scheme = Some("http") /\ request.port = None
  /\ net.port = Some(HttpPort)

\* C12 as claimed: the outgoing head of a RequestSend has the request's own
\* Content-Length when there is one, else a synthesized one, and the
\* Content-Length of the head is the length the body encoder is told to send.
C12_LengthAlwaysExact ==
  (machine = "send" /\ net.headers # None) =>
    /\ request.contentLength # None =>
         unwrap(net.headers).contentLength = request.contentLength
    /\ unwrap(net.headers).contentLength = Some(Len(request.body))
    /\ net.encoder # None => unwrap(net.encoder) = unwrap(net.headers).contentLength

\* C12 as amended: the request's own Content-Length goes out untouched; a
\* synthesized one is the length of the body; the body encoder is always
\* told the length of the body.
C12_LengthSynthesized ==
  (machine = "send" /\ net.headers # None) =>
    /\ request.contentLength # None =>
         unwrap(net.headers).contentLength = request.contentLength
    /\ request.contentLength = None =>
         unwrap(net.headers).contentLength = Some(Len(request.body))
    /\ net.encoder # None => unwrap(net.encoder) = Some(Len(request.body))

\* the body went out under a Content-Length the caller gave that is not its length
C12_Witness ==
  /\ machine = "send" /\ net.encoder # None /\ net.sent = request.body
  /\ request.contentLength # None
  /\ request.contentLength # Some(Len(request.body))
  /\ unwrap(net.headers).contentLength = request.contentLength

\* C13: the outgoing head of a RequestSend always has a Host header: the
\* request's own when there is one, else one made of the host and of the
\* URI's explicit port only (no port when the URI has none).
C13_HostSynthesized ==
  (machine = "send" /\ net.headers # None) =>
    unwrap(net.headers).host =
      Some(IF request.hostHeader THEN OwnHost
           ELSE [from |-> "origin", port |-> request.port])

\* a head with a synthesized Host without a port went out to a default port
C13_Witness ==
  /\ machine = "send" /\ net.head = HeadLen
  /\ ~request.hostHeader /\ request.port = None
  /\ unwrap(net.headers).host = Some([from |-> "origin", port |-> None])
  /\ net.port = Some(HttpsPort)

\* C14: a RequestWrite that started without an error encodes a head marked
\* chunked whose Content-Length is the request's own (none is added), and
\* its body encoder has no declared length, whatever was written.
C14_AlwaysChunked ==
  (machine = "write" /\ net.created) =>
    /\ net.headers # None /\ unwrap(net.headers).chunked
    /\ unwrap(net.headers).contentLength = request.contentLength
    /\ net.encoder = Some(None)
    /\ w.body_encode_state \in {None, Some(None)}
    /\ net.bodyOps => w.body_encode_state = Some(None)

\* a writer without Content-Length that was closed with nothing written
C14_Witness ==
  /\ machine = "write" /\ net.closed /\ net.sent = <<>>
  /\ request.contentLength = None
  /\ unwrap(net.headers).chunked

\* the phases a poll can suspend in
Suspendable == {"PendingConnect", "SendingHead", "SendingBody", "Flushing", "ReceivingHead"}

\* C15: between calls, after Pending the RequestSend is in a non-terminal
\* phase with its cursors where the I/O stopped (the head cursor at the
\* bytes accepted, the remaining slice the unsent rest of the body), and it
\* is Finished exactly when a poll has returned Ready (or panicked since);
\* the step that returns Pending keeps the phase and the transport, and
\* nothing accepted is written again.
C15_PendingKeepsPhase ==
  /\ []((machine = "send" /\ pc = "idle") =>
          /\ ret = "Pending" =>
               /\ self.tag \in Suspendable /\ ~is_terminated
               /\ self.tag = "PendingConnect" => (net.kind = "none" /\ net.head = 0)
               /\ self.tag # "PendingConnect" => self.transport = net.kind
               /\ self.tag = "SendingHead" =>
                    (self.write_state = net.head /\ net.head < HeadLen /\ ~net.bodyOps)
               /\ self.tag = "SendingBody" =>
                    (net.head = HeadLen /\ net.sent \o self.remaining = request.body)
               /\ self.tag = "Flushing" => (net.sent = request.body /\ ~net.flushed)
               /\ self.tag = "ReceivingHead" => (net.flushed /\ ~net.handed)
          /\ is_terminated <=> ret \in ReadyResults \cup {"Panic"}
          /\ ret = "None" => self.tag = "Start")
  /\ [][(machine = "send") =>
          /\ ReturnsPending =>
               /\ self'.tag = self.tag
               /\ self.tag # "PendingConnect" => self'.transport = self.transport
               /\ self.tag = "SendingBody" => self'.remaining = self.remaining
          /\ (pc = "idle" /\ pc' = "loop") => self' = self
          /\ net'.head >= net.head
          /\ Len(net'.sent) >= Len(net.sent)
          /\ Take(net'.sent, Len(net.sent)) = net.sent]_vars

\* a RequestSend suspended in the middle of the head
C15_Witness ==
  /\ machine = "send" /\ pc = "idle" /\ ret = "Pending"
  /\ self.tag = "SendingHead" /\ self.write_state > 0

\* C16: a failed connect is returned as ConnectError, a failed head write,
\* body write, flush or head decode as IoError, and nothing else is returned
\* as either; a Finished RequestSend does nothing more on the connection.
C16_ErrorsAreFinal ==
  [][(machine = "send") =>
       /\ PendingConnectStep("Err") => (ret' = "ConnectError" /\ pc' = "idle")
       /\ ((\E o \in HeadWrites(0) : o.r = "Err" /\ SendingHeadStep(o))
             \/ SendingBodyStep("Err", 0)
             \/ FlushingStep("Err")
             \/ ReceivingHeadStep("Err", TRUE)) => (ret' = "IoError" /\ pc' = "idle")
       /\ (pc = "loop" /\ pc' = "idle" /\ ret' = "ConnectError") =>
            (self.tag = "PendingConnect" /\ net'.kind = "none")
       /\ (pc = "loop" /\ pc' = "idle" /\ ret' = "IoError") =>
            (self.tag \in Suspendable \ {"PendingConnect"} /\ ~net'.handed)
       /\ (pc = "loop" /\ pc' = "idle" /\ ret' \in HttpErrors) => self'.tag = "Finished"
       /\ self.tag = "Finished" => (net' = net /\ self' = self)]_vars

\* the poll after a failed flush has been made
C16_Witness ==
  /\ machine = "send" /\ pc = "idle" /\ ret = "Panic"
  /\ net.flushPolled /\ ~net.flushed

\* C19: a RequestSend holds a transport exactly in the phases SendingHead to
\* ReceivingHead, and it is the stream its connect produced, not yet handed
\* on; it holds a pending connect exactly in PendingConnect; Finished holds
\* neither; once the stream is handed to the response-body reader, and after
\* every error, the exchange is Finished.
C19_OneOwner ==
  (machine = "send") =>
    /\ ("transport" \in DOMAIN self) <=>
         self.tag \in Suspendable \ {"PendingConnect"}
    /\ ("transport" \in DOMAIN self) =>
         (self.transport = net.kind /\ net.kind # "none" /\ ~net.handed)
    /\ ("connect" \in DOMAIN self) <=> self.tag = "PendingConnect"
    /\ ("connect" \in DOMAIN self) => (net.created /\ net.kind = "none")
    /\ self.tag = "Start" => (~net.created /\ net.kind = "none")
    /\ self.tag = "Finished" => DOMAIN self = {"tag"}
    /\ net.handed => self.tag = "Finished"
    /\ (pc = "idle" /\ ret = "Response") => (net.handed /\ self.tag = "Finished")
    /\ (pc = "idle" /\ ret \in HttpErrors) => self.tag = "Finished"
    /\ (pc = "idle" /\ ret \in HttpErrors \ {"ResponseReadError"}) => ~net.handed

\* a body write failed: the stream was connected, the exchange holds nothing
C19_Witness ==
  /\ machine = "send" /\ pc = "idle" /\ ret = "IoError"
  /\ net.kind # "none" /\ net.bodyOps /\ ~net.flushPolled
  /\ DOMAIN self = {"tag"}

\* a step of a RequestWrite that is one call of a sink operation: made by
\* the caller (response is not asked for before or after it), or made by
\* response while it closes
SinkCall == (rpc = "none" /\ rpc' = "none") \/ rpc = "closing"

\* C17: after a call that reached the chunk adapter, if the adapter
\* answered Pending, or Ok to a write or a flush, the transport and the
\* cursor are in the record and no error is; if it failed, IoError is
\* recorded and the transport is gone; a record with an error never holds a
\* transport again.
C17_TakeAndRestore ==
  /\ []((machine = "write" /\ rpc \in {"none", "closing"} /\ "body" \in lastIO) =>
          /\ wret \in {"Pending", "Ok", "IoError"}
          /\ (wret = "Pending" \/ (wret = "Ok" /\ lastOp \in {"write", "flush"})) =>
               (w.transport # None /\ w.body_encode_state # None /\ w.error = None)
          /\ wret = "IoError" => (w.error = Some("IoError") /\ w.transport = None))
  /\ [][(machine = "write" /\ w.error # None) =>
          (w'.transport = None /\ w'.error = w.error)]_vars

\* a call made after the adapter failed has returned
C17_Witness ==
  /\ machine = "write" /\ rpc = "none"
  /\ w.error = Some("IoError") /\ net.bodyOps /\ w.transport = None
  /\ lastIO = {} /\ wret = "IoError"

\* C18: a RequestWrite delegates a body operation only with the connect
\* done and the whole head written; it writes head bytes only to a stored
\* transport, goes on from the cursor where a Pending left it, and writes
\* no head byte once the head is complete; a failed connect is recorded and
\* returned as ConnectError, a failed head write as IoError.
C18_ConnectHeadBody ==
  /\ [](machine = "write" =>
          /\ net.bodyOps => (net.kind # "none" /\ net.head = HeadLen)
          /\ net.head > 0 => net.kind # "none"
          /\ w.pending_head # None =>
               (unwrap(w.pending_head) = net.head /\ net.head < HeadLen)
          /\ (w.error = None /\ w.pending_head = None) => net.head = HeadLen
          /\ w.transport # None => (w.pending_connect = None /\ net.kind # "none")
          /\ w.error = Some("ConnectError") =>
               (net.polled /\ net.kind = "none" /\ net.head = 0 /\ ~net.bodyOps))
  /\ [][(machine = "write") =>
          /\ net'.head >= net.head
          /\ w.pending_head = None => w'.pending_head = None
          /\ (SinkCall /\ "head" \in lastIO') =>
               (w.error = None /\ w.pending_head # None /\ net'.kind # "none")
          /\ (SinkCall /\ "body" \in lastIO') =>
               (w'.pending_head = None /\ net'.head = HeadLen /\ net'.kind # "none")
          /\ (w.error = None /\ w'.error # None) =>
               /\ SinkCall
               /\ wret' = unwrap(w'.error)
               /\ w'.error = IF net'.kind = "none" THEN Some("ConnectError")
                             ELSE Some("IoError")
               /\ net'.kind = "none" => lastIO' = {"connect"}]_vars

\* the head write failed after a suspension in the middle of the head
C18_Witness ==
  /\ machine = "write" /\ w.error = Some("IoError") /\ wret = "IoError"
  /\ net.head > 0 /\ net.head < HeadLen /\ lastIO = {"head"}

One(b) == IF b THEN 1 ELSE 0

\* C20: between the calls on a RequestWrite exactly one of a recorded error,
\* a pending connect and a stored transport is there, and the cursor is
\* stored when no error is; no call panics on an empty slot or returns
\* "already closed", and response finds the error or the transport it takes.
C20_RecordShape ==
  (machine = "write") =>
    /\ rpc \in {"none", "closing"} =>
         /\ One(w.error # None) + One(w.pending_connect # None)
              + One(w.transport # None) = 1
         /\ w.error = None => w.body_encode_state # None
    /\ wret \notin {"Panic", "AlreadyClosed"}
    /\ rret # "Panic"
    /\ wret \in HttpErrors => w.error = Some(wret)

\* response has taken the transport a completed close left in the record
C20_Witness ==
  /\ machine = "write" /\ rpc = "decoding" /\ wret = "Ok" /\ lastOp = "close"
  /\ w.transport = None /\ w.error = None

\* C21: every iteration of the loop of RequestSend::poll returns from the
\* call, moves to a later phase, or strictly shrinks the remaining body
\* slice, so one call makes a bounded number of iterations; a body write
\* that accepts 0 bytes of a non-empty slice is no exception.
C21_IterationProgresses ==
  [][(machine = "send" /\ pc = "loop") =>
       \/ pc' = "idle"
       \/ Rank(self'.tag) > Rank(self.tag)
       \/ /\ self.tag = "SendingBody" /\ self'.tag = "SendingBody"
          /\ Len(self'.remaining) < Len(self.remaining)]_vars

====
